---- MODULE Spec2Model ----
(***************************************************************************)
(* QuickScore (src/app.py): a Streamlit form that cascades three selectors *)
(* over a static table, renders a prompt, calls a chat-completion endpoint *)
(* twice in sequence and shows the results; plus the word-count normalizer *)
(* (calculateWordCount / extractCountableWords / stripHtmlWithDOMParser).  *)
(*                                                                         *)
(* Texts are sequences of tokens.  Each token stands for one substring of  *)
(* the answer: "w" a run of word characters, " " one whitespace character, *)
(* "&nbsp;" the entity, "AC1.2" / "AC1.0" an assessment-criterion code,    *)
(* and the rest are tags written as they appear.  No token contains '<' or *)
(* '>' except a tag, which is exactly one "<...>", so every regular        *)
(* expression of the source matches whole tokens.                          *)
(***************************************************************************)
EXTENDS Integers, Sequences, FiniteSets, TLC

VARIABLES
    \* ---- normalizer harness ----
    htmlString,     \* the raw answer handed to calculateWordCount
    cleanText,      \* stripHtmlWithDOMParser(htmlString)
    totalWords,     \* calculateWordCount(htmlString)
    cleanText2,     \* stripHtmlWithDOMParser(cleanText)
    totalWords2,    \* calculateWordCount(cleanText)
    npc             \* "input" | "normalized" | "renormalized" | "off"

normVars == <<htmlString, cleanText, totalWords, cleanText2, totalWords2, npc>>

VARIABLES
    \* ---- process configuration (read once from the environment) ----
    AZURE_OPENAI_ENDPOINT,
    AZURE_OPENAI_API_KEY,
    jsonErrorIsRequestException, \* the installed requests: is the error of
                                 \* response.json() a RequestException?
    \* ---- widget values after the latest script run ----
    level, study_unit, assessment, question, answer,
    \* ---- the Submit handler ----
    submit,         \* st.button("Submit") returned True in this script run
    pc,             \* "idle" | "validating" | "suggesting"
    calls,          \* the completion calls of the current script run
    inflight,       \* the calls posted and not yet returned
    everPosted,     \* some request was posted since process start
    validation,     \* the validation text, None until the call returns
    suggestions,    \* the suggestion text, None until the call returns
    raised,         \* the exception the handler caught, None if none
    failed,         \* the call that raised it, None if none
    rendered        \* what the script run has put below the form

configVars == <<AZURE_OPENAI_ENDPOINT, AZURE_OPENAI_API_KEY, jsonErrorIsRequestException>>
selVars == <<level, study_unit, assessment, question>>
runVars == <<submit, pc, calls, inflight, everPosted, validation, suggestions, raised,
             failed, rendered>>
uiVars == <<configVars, selVars, answer, runVars>>

vars == <<normVars, uiVars>>

(***************************************************************************)
(* Bounds                                                                  *)
(***************************************************************************)
MaxLen == 4
MaxTableLen == 5

None == "None"

WS == " "
NBSP == "&nbsp;"
Alphabet == {"w", WS, "<table>", "</table>", "</TABLE>", "<s>", "</s>",
             "<p>", "<b>", "AC1.2", "AC1.0", NBSP}
TableAlphabet == {"w", WS, "<table>", "</table>", "</TABLE>", "<b>"}

SeqsUpTo(S, n) == UNION {[1..k -> S] : k \in 0..n}

(***************************************************************************)
(* Text normalizer                                                         *)
(***************************************************************************)
\* every token that is one "<...>" tag
Tags == {"<table>", "</table>", "</TABLE>", "<s>", "</s>", "<p>", "</p>",
         "<b>", "</th>", "</td>", "</tr>"}
TableOpen == {"<table>"}
TableClose == {"</table>", "</TABLE>"}
StrikeOpen == {"<s>"}
StrikeClose == {"</s>"}
\* the codes ^AC\s?[1-9]\.[1-9] matches ("AC1.0" has a digit outside 1-9)
MatchedCodes == {"AC1.2"}
Codes == {"AC1.2", "AC1.0"}

RECURSIVE LStrip(_)
LStrip(s) == IF s # <<>> /\ Head(s) = WS THEN LStrip(Tail(s)) ELSE s

RECURSIVE RStrip(_)
RStrip(s) ==
    IF s # <<>> /\ s[Len(s)] = WS THEN RStrip(SubSeq(s, 1, Len(s) - 1)) ELSE s

\* str.strip()
Strip(s) == RStrip(LStrip(s))

\* the six str.replace calls: a space after </th> </td> </tr> </table> </p>
\* (lower case only: str.replace is case sensitive) and before "<p"
RECURSIVE PadTags(_)
PadTags(s) ==
    IF s = <<>> THEN <<>>
    ELSE LET t == Head(s) IN
         (IF t \in {"</th>", "</td>", "</tr>", "</table>", "</p>"} THEN <<t, WS>>
          ELSE IF t = "<p>" THEN <<WS, t>>
          ELSE <<t>>) \o PadTags(Tail(s))

\* index of the first token of s at or after i that is in S, 0 if none
RECURSIVE FirstIn(_, _, _)
FirstIn(s, i, S) ==
    IF i > Len(s) THEN 0
    ELSE IF s[i] \in S THEN i
    ELSE FirstIn(s, i + 1, S)

\* re.sub(r'<open\b[^>]*>[\s\S]*?</close>', '', s, flags=IGNORECASE): leftmost
\* opening tag through the FIRST closing tag after it, repeated left to right
RECURSIVE RemoveElementsFrom(_, _, _, _)
RemoveElementsFrom(s, i, opens, closes) ==
    IF i > Len(s) THEN <<>>
    ELSE LET j == FirstIn(s, i + 1, closes) IN
         IF s[i] \in opens /\ j # 0
         THEN RemoveElementsFrom(s, j + 1, opens, closes)
         ELSE <<s[i]>> \o RemoveElementsFrom(s, i + 1, opens, closes)

RemoveElements(s, opens, closes) == RemoveElementsFrom(s, 1, opens, closes)

\* re.sub(r'<[^>]+>', '', s)
RemoveTags(s) == SelectSeq(s, LAMBDA t : t \notin Tags)

\* re.sub(r'^AC\s?[1-9]\.[1-9]\s*', '', s, flags=IGNORECASE)
StripCode(s) ==
    IF s # <<>> /\ Head(s) \in MatchedCodes THEN LStrip(Tail(s)) ELSE s

\* s.replace('&nbsp;', ' ')
ReplaceNbsp(s) == [i \in 1..Len(s) |-> IF s[i] = NBSP THEN WS ELSE s[i]]

RECURSIVE SqueezeWs(_)
SqueezeWs(s) ==
    IF Len(s) < 2 THEN s
    ELSE IF s[1] = WS /\ s[2] = WS THEN SqueezeWs(Tail(s))
    ELSE <<Head(s)>> \o SqueezeWs(Tail(s))

\* variant: the runs are collapsed but the result is not trimmed
CollapseWhitespaceNoTrim(s) == SqueezeWs(s)

\* re.sub(r'\s+', ' ', s).strip()
CollapseWhitespace(s) == Strip(SqueezeWs(s))

stripHtmlWithDOMParser(s) ==
    LET t0 == Strip(s)
        t1 == PadTags(t0)
        t2 == RemoveElements(t1, TableOpen, TableClose)
        t3 == RemoveElements(t2, StrikeOpen, StrikeClose)
        t4 == RemoveTags(t3)
        t5 == StripCode(t4)
        t6 == ReplaceNbsp(t5)
    IN  CollapseWhitespace(t6)

\* len([w for w in re.split(r'[\s\n\r\t]+', s.strip()) if w.strip()]):
\* adjacent non-whitespace tokens are one word
RECURSIVE SplitCount(_, _)
SplitCount(s, prevWs) ==
    IF s = <<>> THEN 0
    ELSE (IF Head(s) # WS /\ prevWs THEN 1 ELSE 0)
         + SplitCount(Tail(s), Head(s) = WS)

extractCountableWords(text) ==
    IF text = <<>> \/ Strip(text) = <<>> THEN 0
    ELSE SplitCount(Strip(stripHtmlWithDOMParser(Strip(text))), TRUE)

calculateWordCount(a) == IF a = <<>> THEN 0 ELSE extractCountableWords(a)

(***************************************************************************)
(* Reference data (data.json, loaded at start-up): a sample table of the   *)
(* documented shape, level -> unit -> [{Assessment Criteria, Question}].   *)
(* "Level 3" and "Level 5" list the same units, and their "U2" the same    *)
(* criteria; "U1" of "Level 5" lists criterion "C1" twice.                 *)
(***************************************************************************)
DATA ==
    << [level |-> "Level 3",
        units |-> << [unit |-> "U1", items |-> << [ac |-> "C1", q |-> "Q1"] >>],
                     [unit |-> "U2", items |-> << [ac |-> "C3", q |-> "Q2"] >>] >>],
       [level |-> "Level 5",
        units |-> << [unit |-> "U1", items |-> << [ac |-> "C1", q |-> "Q3"],
                                                  [ac |-> "C2", q |-> "Q4"],
                                                  [ac |-> "C1", q |-> "Q5"] >>],
                     [unit |-> "U2", items |-> << [ac |-> "C3", q |-> "Q6"] >>] >>],
       [level |-> "Advanced LEVEL 7",
        units |-> << [unit |-> "U1", items |-> << [ac |-> "C1", q |-> "Q7"] >>],
                     [unit |-> "U3", items |-> << [ac |-> "C4", q |-> "Q8"],
                                                  [ac |-> "C5", q |-> "Q9"] >>] >>] >>

Placeholder == "Select an option"

\* the answers the user can paste
Answers == {<<>>, <<"w">>, <<"AC1.2", WS, "w", WS, "w">>}

\* the texts the model can return for the validation prompt
RightTrack == "You appear to be on the right track. ..."
NotRightTrack == "You are not quite on the right track yet. ..."
ValidationTexts == {RightTrack, NotRightTrack}
SuggestionTexts == {"Here are some suggestions ..."}

\* if x:
Truthy(x) == x # None /\ x # ""

Range(f) == {f[i] : i \in DOMAIN f}

\* ["Select an option"] + list(DATA.keys())
LevelOptions == <<Placeholder>> \o [i \in 1..Len(DATA) |-> DATA[i].level]

\* DATA[level]
LevelUnits(l) ==
    LET recs == SelectSeq(DATA, LAMBDA r : r.level = l)
    IN  IF recs = <<>> THEN <<>> ELSE recs[1].units

\* list(DATA[level].keys())
UnitOptions(l) == [i \in 1..Len(LevelUnits(l)) |-> LevelUnits(l)[i].unit]

\* ac_items = DATA[level][study_unit]
ac_items(l, u) ==
    LET recs == SelectSeq(LevelUnits(l), LAMBDA r : r.unit = u)
    IN  IF recs = <<>> THEN <<>> ELSE recs[1].items

\* [i["Assessment Criteria"] for i in ac_items]
CriterionOptions(l, u) == [i \in 1..Len(ac_items(l, u)) |-> ac_items(l, u)[i].ac]

\* next(i["Question"] for i in ac_items if i["Assessment Criteria"] == assessment)
QuestionOf(l, u, c) ==
    LET hits == SelectSeq(ac_items(l, u), LAMBDA r : r.ac = c)
    IN  IF hits = <<>> THEN None ELSE hits[1].q

\* level.lower().find("level 7") != -1
IsLevel7(l) == l \in {"Level 7", "Advanced LEVEL 7"}

\* variant: a selector that keeps its value when its options change
selectboxSticky(prevOptions, prevValue, options) ==
    IF prevValue # None THEN prevValue
    ELSE IF options = <<>> THEN None ELSE options[1]

\* st.selectbox(label, options) on a rerun: a widget without a key is the same
\* widget only while its label and options are the same, and then keeps its
\* value; otherwise it is a new widget showing its first option (None if empty)
selectbox(prevOptions, prevValue, options) ==
    IF options = <<>> THEN None
    ELSE IF prevOptions = options /\ prevValue # None THEN prevValue
    ELSE options[1]

\* the options the unit and criterion selectors showed in the latest run
ShownUnitOptions == IF level # Placeholder THEN UnitOptions(level) ELSE <<>>
ShownCriterionOptions ==
    IF Truthy(study_unit) THEN CriterionOptions(level, study_unit) ELSE <<>>

\* lines 167-192 of one script run, with the level and unit widgets holding
\* l and (prevUnitOptions, unitValue)
RunSelection(l, prevUnitOptions, unitValue, prevCritOptions, critValue) ==
    LET u == IF l # Placeholder
             THEN selectbox(prevUnitOptions, unitValue, UnitOptions(l))
             ELSE None
        c == IF Truthy(u)
             THEN selectbox(prevCritOptions, critValue, CriterionOptions(l, u))
             ELSE None
        q == IF Truthy(c) THEN QuestionOf(l, u, c) ELSE None
    IN  /\ level' = l
        /\ study_unit' = u
        /\ assessment' = c
        /\ question' = q

(***************************************************************************)
(* Configuration                                                           *)
(***************************************************************************)
\* os.getenv: unset, set to the empty string, or set
ConfigValues == {None, "", "set"}

\* variant: only the endpoint is checked
validate_configEndpointOnly ==
    IF ~Truthy(AZURE_OPENAI_ENDPOINT)
    THEN [valid |-> FALSE, error |-> "Missing environment variable: openai_ai_endpoint"]
    ELSE [valid |-> TRUE, error |-> ""]

validate_config ==
    IF ~Truthy(AZURE_OPENAI_ENDPOINT)
    THEN [valid |-> FALSE, error |-> "Missing environment variable: openai_ai_endpoint"]
    ELSE IF ~Truthy(AZURE_OPENAI_API_KEY)
    THEN [valid |-> FALSE, error |-> "Missing environment variable: openai_api_key"]
    ELSE [valid |-> TRUE, error |-> ""]

\* the guard of call_azure_openai: what the call does before anything else
CallGuard(endpoint, key) ==
    IF ~Truthy(endpoint) \/ ~Truthy(key) THEN "ValueError" ELSE "post"

\* what a script run shows below the form before it reaches the Submit button
ConfigurationCheck ==
    IF validate_config.valid THEN <<>>
    ELSE << [widget |-> "st.error", text |-> "Configuration Error",
             cause |-> validate_config.error] >>

(***************************************************************************)
(* Prompts                                                                 *)
(***************************************************************************)
PromptFields ==
    [level |-> level, assessment |-> assessment, study_unit |-> study_unit,
     question |-> question, answer |-> answer]

validation_prompt ==
    [template |-> IF IsLevel7(level) THEN "validation-level7"
                                     ELSE "validation-standard",
     fields |-> PromptFields]

suggestion_prompt ==
    [template |-> IF IsLevel7(level) THEN "suggestion-level7"
                                     ELSE "suggestion-standard",
     fields |-> PromptFields]

(***************************************************************************)
(* Errors                                                                  *)
(***************************************************************************)
\* what call_azure_openai can raise once the request is posted: requests.post
\* (ConnectionError, Timeout), raise_for_status (HTTPError), response.json()
\* (JSONDecodeError), ["choices"][0]["message"]["content"] (KeyError) and
\* .strip() on a null content (AttributeError)
CallFailures == {"ConnectionError", "Timeout", "HTTPError", "JSONDecodeError",
                 "KeyError", "AttributeError"}

\* except requests.exceptions.RequestException
IsRequestException(exc) ==
    \/ exc \in {"ConnectionError", "Timeout", "HTTPError"}
    \/ exc = "JSONDecodeError" /\ jsonErrorIsRequestException

\* the two except clauses of the Submit handler
Handle(exc) ==
    IF IsRequestException(exc)
    THEN << [widget |-> "st.error", text |-> "API Error", cause |-> None],
            [widget |-> "st.code", text |-> "str(e)", cause |-> exc] >>
    ELSE << [widget |-> "st.error", text |-> "Error", cause |-> exc] >>

(***************************************************************************)
(* The form.  A script run is synchronous: a widget change or a press of   *)
(* Submit is taken only when no run is under way (pc = "idle"), and every  *)
(* run redraws the page from the widget values.                            *)
(***************************************************************************)
\* a script run that does not enter the Submit handler
NoSubmission ==
    /\ submit' = FALSE
    /\ pc' = "idle"
    /\ calls' = <<>>
    /\ inflight' = {}
    /\ validation' = None
    /\ suggestions' = None
    /\ raised' = None
    /\ failed' = None
    /\ rendered' = ConfigurationCheck
    /\ UNCHANGED everPosted

UIInit ==
    /\ AZURE_OPENAI_ENDPOINT \in ConfigValues
    /\ AZURE_OPENAI_API_KEY \in ConfigValues
    /\ jsonErrorIsRequestException \in BOOLEAN
    /\ level = Placeholder
    /\ study_unit = None
    /\ assessment = None
    /\ question = None
    /\ answer = <<>>
    /\ submit = FALSE
    /\ pc = "idle"
    /\ calls = <<>>
    /\ inflight = {}
    /\ everPosted = FALSE
    /\ validation = None
    /\ suggestions = None
    /\ raised = None
    /\ failed = None
    /\ rendered = ConfigurationCheck

\* the form while the normalizer alone is exercised
UIIdle ==
    /\ AZURE_OPENAI_ENDPOINT = "set"
    /\ AZURE_OPENAI_API_KEY = "set"
    /\ jsonErrorIsRequestException = TRUE
    /\ level = Placeholder
    /\ study_unit = None
    /\ assessment = None
    /\ question = None
    /\ answer = <<>>
    /\ submit = FALSE
    /\ pc = "idle"
    /\ calls = <<>>
    /\ inflight = {}
    /\ everPosted = FALSE
    /\ validation = None
    /\ suggestions = None
    /\ raised = None
    /\ failed = None
    /\ rendered = <<>>

\* the answer box has one label for level 7 and another otherwise: changing
\* between them shows a new, empty box
SelectLevel(l) ==
    /\ pc = "idle"
    /\ l \in Range(LevelOptions)
    /\ l # level
    /\ RunSelection(l, ShownUnitOptions, study_unit,
                    ShownCriterionOptions, assessment)
    /\ answer' = IF IsLevel7(l) = IsLevel7(level) THEN answer ELSE <<>>
    /\ NoSubmission
    /\ UNCHANGED <<configVars, normVars>>

SelectUnit(u) ==
    /\ pc = "idle"
    /\ u \in Range(ShownUnitOptions)
    /\ u # study_unit
    /\ RunSelection(level, ShownUnitOptions, u, ShownCriterionOptions, assessment)
    /\ NoSubmission
    /\ UNCHANGED <<configVars, answer, normVars>>

SelectCriterion(c) ==
    /\ pc = "idle"
    /\ c \in Range(ShownCriterionOptions)
    /\ c # assessment
    /\ RunSelection(level, ShownUnitOptions, study_unit, ShownCriterionOptions, c)
    /\ NoSubmission
    /\ UNCHANGED <<configVars, answer, normVars>>

EditAnswer(a) ==
    /\ pc = "idle"
    /\ a \in Answers
    /\ a # answer
    /\ answer' = a
    /\ NoSubmission
    /\ UNCHANGED <<configVars, selVars, normVars>>

(***************************************************************************)
(* Submit                                                                  *)
(***************************************************************************)
\* the Submit button exists only in a run that st.stop() did not end
SubmitShown == validate_config.valid

\* variant: both calls are posted together
PressSubmitBothAtOnce ==
    /\ pc = "idle"
    /\ SubmitShown
    /\ submit' = TRUE
    /\ calls' = << [kind |-> "validation", prompt |-> validation_prompt],
                   [kind |-> "suggestion", prompt |-> suggestion_prompt] >>
    /\ inflight' = {"validation", "suggestion"}
    /\ everPosted' = TRUE
    /\ pc' = "validating"
    /\ rendered' = <<>>
    /\ UNCHANGED <<validation, suggestions, raised, failed>>
    /\ UNCHANGED <<configVars, selVars, answer, normVars>>

\* variant: the handler calls only with a criterion chosen and an answer given
PressSubmitOnlyWhenFilled ==
    /\ pc = "idle"
    /\ SubmitShown
    /\ submit' = TRUE
    /\ IF Truthy(assessment) /\ answer # <<>>
       THEN /\ calls' = << [kind |-> "validation", prompt |-> validation_prompt] >>
            /\ inflight' = {"validation"}
            /\ everPosted' = TRUE
            /\ pc' = "validating"
            /\ rendered' = <<>>
            /\ raised' = None
            /\ failed' = None
       ELSE /\ calls' = <<>>
            /\ inflight' = {}
            /\ pc' = "idle"
            /\ raised' = None
            /\ failed' = None
            /\ rendered' = <<>>
            /\ UNCHANGED everPosted
    /\ validation' = None
    /\ suggestions' = None
    /\ UNCHANGED <<configVars, selVars, answer, normVars>>

\* Submit pressed: the run enters the handler, renders the validation prompt
\* and calls call_azure_openai, which raises ValueError or posts the request
PressSubmit ==
    /\ pc = "idle"
    /\ SubmitShown
    /\ submit' = TRUE
    /\ IF CallGuard(AZURE_OPENAI_ENDPOINT, AZURE_OPENAI_API_KEY) = "post"
       THEN /\ calls' = << [kind |-> "validation", prompt |-> validation_prompt] >>
            /\ inflight' = {"validation"}
            /\ everPosted' = TRUE
            /\ pc' = "validating"
            /\ rendered' = <<>>
            /\ raised' = None
            /\ failed' = None
       ELSE /\ calls' = << [kind |-> "validation", prompt |-> validation_prompt] >>
            /\ inflight' = {}
            /\ pc' = "idle"
            /\ raised' = "ValueError"
            /\ failed' = "validation"
            /\ rendered' = Handle("ValueError")
            /\ UNCHANGED everPosted
    /\ validation' = None
    /\ suggestions' = None
    /\ UNCHANGED <<configVars, selVars, answer, normVars>>

\* what the handler shows once the validation call has returned
ValidationResult(text) ==
    << [widget |-> "st.text", text |-> "Calculated word count",
        cause |-> calculateWordCount(answer)],
       [widget |-> "st.text", text |-> "Acceptable Range",
        cause |-> IF IsLevel7(level) THEN "900 - 1100" ELSE "360 - 440"],
       [widget |-> "st.text", text |-> "Feedback Summary", cause |-> text] >>

\* variant: the suggestion call is made only for a right-track verdict (the
\* test the source has as a comment)
ValidationReturnsGated(text) ==
    /\ pc = "validating"
    /\ text \in ValidationTexts
    /\ validation' = text
    /\ rendered' = rendered \o ValidationResult(text)
    /\ IF text = RightTrack
       THEN /\ calls' = Append(calls, [kind |-> "suggestion",
                                       prompt |-> suggestion_prompt])
            /\ inflight' = {"suggestion"}
            /\ pc' = "suggesting"
       ELSE /\ calls' = calls
            /\ inflight' = {}
            /\ pc' = "idle"
    /\ UNCHANGED <<submit, everPosted, suggestions, raised, failed>>
    /\ UNCHANGED <<configVars, selVars, answer, normVars>>

\* the validation call returns: the word count and the result are shown and
\* the suggestion call is made, whatever the result says
ValidationReturns(text) ==
    /\ pc = "validating"
    /\ text \in ValidationTexts
    /\ validation' = text
    /\ rendered' = rendered \o ValidationResult(text)
    /\ IF CallGuard(AZURE_OPENAI_ENDPOINT, AZURE_OPENAI_API_KEY) = "post"
       THEN /\ calls' = Append(calls, [kind |-> "suggestion",
                                       prompt |-> suggestion_prompt])
            /\ inflight' = (inflight \ {"validation"}) \cup {"suggestion"}
            /\ pc' = "suggesting"
            /\ UNCHANGED <<raised, failed>>
       ELSE /\ calls' = Append(calls, [kind |-> "suggestion",
                                       prompt |-> suggestion_prompt])
            /\ inflight' = inflight \ {"validation"}
            /\ pc' = "idle"
            /\ raised' = "ValueError"
            /\ failed' = "suggestion"
    /\ UNCHANGED <<submit, everPosted, suggestions>>
    /\ UNCHANGED <<configVars, selVars, answer, normVars>>

\* variant: a failed validation call is posted again
ValidationFailsRetry(exc) ==
    /\ pc = "validating"
    /\ exc \in CallFailures
    /\ raised' = exc
    /\ failed' = "validation"
    /\ calls' = IF Len(calls) < 2
                THEN Append(calls, [kind |-> "validation",
                                    prompt |-> validation_prompt])
                ELSE calls
    /\ pc' = IF Len(calls) < 2 THEN "validating" ELSE "idle"
    /\ inflight' = IF Len(calls) < 2 THEN {"validation"} ELSE {}
    /\ rendered' = rendered \o Handle(exc)
    /\ UNCHANGED <<submit, everPosted, validation, suggestions>>
    /\ UNCHANGED <<configVars, selVars, answer, normVars>>

\* the validation call raises: the handler's except clauses show the error
ValidationFails(exc) ==
    /\ pc = "validating"
    /\ exc \in CallFailures
    /\ raised' = exc
    /\ failed' = "validation"
    /\ inflight' = inflight \ {"validation"}
    /\ pc' = "idle"
    /\ rendered' = rendered \o Handle(exc)
    /\ UNCHANGED <<submit, calls, everPosted, validation, suggestions>>
    /\ UNCHANGED <<configVars, selVars, answer, normVars>>

\* the suggestion call returns: the suggestions are shown, and for level 7
\* the reminder list
SuggestionReturns(text) ==
    /\ pc = "suggesting"
    /\ text \in SuggestionTexts
    /\ suggestions' = text
    /\ inflight' = inflight \ {"suggestion"}
    /\ pc' = "idle"
    /\ rendered' = rendered
         \o << [widget |-> "st.text", text |-> "Suggestions for Improvement",
                cause |-> text] >>
         \o (IF IsLevel7(level)
             THEN << [widget |-> "st.markdown", text |-> "Remember to",
                      cause |-> None] >>
             ELSE <<>>)
    /\ UNCHANGED <<submit, calls, everPosted, validation, raised, failed>>
    /\ UNCHANGED <<configVars, selVars, answer, normVars>>

SuggestionFails(exc) ==
    /\ pc = "suggesting"
    /\ exc \in CallFailures
    /\ raised' = exc
    /\ failed' = "suggestion"
    /\ inflight' = inflight \ {"suggestion"}
    /\ pc' = "idle"
    /\ rendered' = rendered \o Handle(exc)
    /\ UNCHANGED <<submit, calls, everPosted, validation, suggestions>>
    /\ UNCHANGED <<configVars, selVars, answer, normVars>>

NormOff ==
    /\ htmlString = <<>>
    /\ cleanText = <<>>
    /\ totalWords = 0
    /\ cleanText2 = <<>>
    /\ totalWords2 = 0
    /\ npc = "off"

Init == UIInit /\ NormOff

Next ==
    \/ \E l \in Range(LevelOptions) : SelectLevel(l)
    \/ \E u \in Range(ShownUnitOptions) : SelectUnit(u)
    \/ \E c \in Range(ShownCriterionOptions) : SelectCriterion(c)
    \/ \E a \in Answers : EditAnswer(a)
    \/ PressSubmit
    \/ \E text \in ValidationTexts : ValidationReturns(text)
    \/ \E exc \in CallFailures : ValidationFails(exc)
    \/ \E text \in SuggestionTexts : SuggestionReturns(text)
    \/ \E exc \in CallFailures : SuggestionFails(exc)

Spec == Init /\ [][Next]_vars

(***************************************************************************)
(* Normalizer harness: the input is drawn in Init, Normalize applies the   *)
(* functions to it and Renormalize applies them to the result.             *)
(***************************************************************************)
NormInit(inputs) ==
    /\ htmlString \in inputs
    /\ cleanText = <<>>
    /\ totalWords = 0
    /\ cleanText2 = <<>>
    /\ totalWords2 = 0
    /\ npc = "input"
    /\ UIIdle

Normalize ==
    /\ npc = "input"
    /\ cleanText' = stripHtmlWithDOMParser(htmlString)
    /\ totalWords' = calculateWordCount(htmlString)
    /\ npc' = "normalized"
    /\ UNCHANGED <<htmlString, cleanText2, totalWords2, uiVars>>

Renormalize ==
    /\ npc = "normalized"
    /\ cleanText2' = stripHtmlWithDOMParser(cleanText)
    /\ totalWords2' = calculateWordCount(cleanText)
    /\ npc' = "renormalized"
    /\ UNCHANGED <<htmlString, cleanText, totalWords, uiVars>>

NormNext == Normalize \/ Renormalize

SpecNorm == NormInit(SeqsUpTo(Alphabet, MaxLen)) /\ [][NormNext]_vars

SpecTable == NormInit(SeqsUpTo(TableAlphabet, MaxTableLen)) /\ [][NormNext]_vars

(***************************************************************************)
(* Properties                                                              *)
(***************************************************************************)
CallKinds == [i \in 1..Len(calls) |-> calls[i].kind]

ErrorWidgets == {"st.error", "st.code"}

\* C1: a submission issues at most two completion calls, the validation call
\* then the suggestion call; the suggestion call is issued only after the
\* validation call has returned, and no two calls are in flight together.
C1_SequentialCalls ==
    /\ Cardinality(inflight) <= 1
    /\ CallKinds \in {<<>>, <<"validation">>, <<"validation", "suggestion">>}
    /\ (calls # <<>>) => submit
    /\ ("suggestion" \in Range(CallKinds) \/ "suggestion" \in inflight)
          => validation # None /\ "validation" \notin inflight
    /\ (pc = "validating") <=> (inflight = {"validation"})
    /\ (pc = "suggesting") <=> (inflight = {"suggestion"})

C1_Witness ==
    /\ CallKinds = <<"validation", "suggestion">>
    /\ inflight = {"suggestion"}
    /\ validation # None

\* C2 as claimed: in the standard variant, a validation text that does not
\* start with the "on the right track" phrase is followed by no suggestion call.
C2_Original ==
    (~IsLevel7(level) /\ validation # None /\ validation # RightTrack)
        => "suggestion" \notin Range(CallKinds)

\* C2 as amended: in the standard variant as in the level-7 variant, the
\* suggestion call is made whenever the validation call has returned,
\* whatever its text starts with.
C2_SuggestionNotGated ==
    (validation # None)
        => Len(calls) = 2 /\ calls[2].kind = "suggestion"
           /\ calls[2].prompt = suggestion_prompt

C2_Witness ==
    /\ ~IsLevel7(level)
    /\ validation = NotRightTrack
    /\ inflight = {"suggestion"}

\* C3: when the validation call fails, no suggestion call is issued, neither
\* result is shown, the run ends with an error message and the call is not
\* retried.
C3_ValidationFailureAborts ==
    (failed = "validation") =>
        /\ pc = "idle"
        /\ inflight = {}
        /\ CallKinds = <<"validation">>
        /\ validation = None
        /\ suggestions = None
        /\ rendered # <<>>
        /\ rendered[1].widget = "st.error"
        /\ \A i \in DOMAIN rendered : rendered[i].widget \in ErrorWidgets

C3_Witness ==
    /\ failed = "validation"
    /\ raised = "HTTPError"
    /\ rendered # <<>>

ConfigMissing == ~Truthy(AZURE_OPENAI_ENDPOINT) \/ ~Truthy(AZURE_OPENAI_API_KEY)

\* C4: with the endpoint or the key unset or empty, no request is ever made:
\* the configuration error is shown and Submit cannot be pressed, and
\* call_azure_openai raises before it posts.
C4_NoRequestWithoutConfig ==
    ConfigMissing =>
        /\ ~everPosted
        /\ inflight = {}
        /\ calls = <<>>
        /\ ~submit
        /\ ~ENABLED PressSubmit
        /\ Len(rendered) = 1
        /\ rendered[1].text = "Configuration Error"
        /\ CallGuard(AZURE_OPENAI_ENDPOINT, AZURE_OPENAI_API_KEY) = "ValueError"

C4_Witness ==
    /\ AZURE_OPENAI_ENDPOINT = "set"
    /\ AZURE_OPENAI_API_KEY = ""
    /\ Truthy(assessment)
    /\ answer # <<>>

\* C5: every error raised in a submission is caught and shown: a transport or
\* HTTP-status failure as an API error with its cause, every other failure as
\* a generic error; the form then accepts the next submission.
C5_ErrorsReported ==
    (raised # None) =>
        /\ pc = "idle"
        /\ inflight = {}
        /\ ENABLED PressSubmit
        /\ LET n == Len(rendered) IN
           IF raised \in {"ConnectionError", "Timeout", "HTTPError"}
           THEN /\ n >= 2
                /\ rendered[n - 1].text = "API Error"
                /\ rendered[n].cause = raised
           ELSE /\ n >= 1
                /\ rendered[n].text = "Error"
                /\ rendered[n].cause = raised

\* C9: the selection follows the cascade: a unit only under a chosen level it
\* belongs to, a criterion only under a chosen unit that lists it, the question
\* only with a criterion, and then the question of the first record of that
\* unit with that criterion; nothing of a previous level stays in place.
C9_CascadeConsistent ==
    /\ level \in Range(LevelOptions)
    /\ (study_unit # None) =>
          level # Placeholder /\ study_unit \in Range(UnitOptions(level))
    /\ (assessment # None) =>
          /\ study_unit # None
          /\ \E i \in DOMAIN ac_items(level, study_unit) :
                /\ ac_items(level, study_unit)[i].ac = assessment
                /\ ac_items(level, study_unit)[i].q = question
                /\ \A j \in 1..(i - 1) :
                      ac_items(level, study_unit)[j].ac # assessment
    /\ (question # None) => assessment # None

C9_Witness ==
    /\ level = "Level 3"
    /\ study_unit = "U2"
    /\ assessment = "C3"
    /\ question = "Q2"

\* C10 as claimed: a completion call is issued only for a submission made
\* with level, unit and criterion chosen, the question shown and a non-empty
\* answer.
C10_Original ==
    (calls # <<>>) =>
        /\ level # Placeholder
        /\ Truthy(study_unit)
        /\ Truthy(assessment)
        /\ question # None
        /\ answer # <<>>

\* C10 as amended: every press of Submit issues the validation call, in any
\* selection state and with any answer, the empty one included; the prompt
\* carries the current selector values, chosen or not.
C10_SubmitAlwaysCalls ==
    submit =>
        /\ calls # <<>>
        /\ calls[1].kind = "validation"
        /\ calls[1].prompt.fields =
              [level |-> level, assessment |-> assessment,
               study_unit |-> study_unit, question |-> question,
               answer |-> answer]
        /\ everPosted

C10_Witness ==
    /\ submit
    /\ level = Placeholder
    /\ assessment = None
    /\ answer = <<>>
    /\ inflight = {"validation"}

(***************************************************************************)
(* Properties of the normalizer                                            *)
(***************************************************************************)
\* the nesting depth of table elements after each token, -1 once a closing
\* tag has no opening tag
RECURSIVE TableDepth(_, _)
TableDepth(s, d) ==
    IF d < 0 THEN -1
    ELSE IF s = <<>> THEN d
    ELSE IF Head(s) \in TableOpen THEN TableDepth(Tail(s), d + 1)
    ELSE IF Head(s) \in TableClose THEN TableDepth(Tail(s), d - 1)
    ELSE TableDepth(Tail(s), d)

WellNestedTables(s) == TableDepth(s, 0) = 0

\* s without its table elements, each from its opening tag to the MATCHING
\* closing tag, with sep left in the place of each
RECURSIVE OutsideTables(_, _, _)
OutsideTables(s, d, sep) ==
    IF s = <<>> THEN <<>>
    ELSE IF Head(s) \in TableOpen THEN OutsideTables(Tail(s), d + 1, sep)
    ELSE IF Head(s) \in TableClose
         THEN (IF d = 1 THEN sep ELSE <<>>) \o OutsideTables(Tail(s), d - 1, sep)
    ELSE (IF d = 0 THEN <<Head(s)>> ELSE <<>>) \o OutsideTables(Tail(s), d, sep)

\* C6: the words between an opening table tag and its matching closing tag,
\* in any letter case and with tables nested, are not counted: the count is
\* that of the text outside the table elements.
C6_TableWordsExcluded ==
    (npc # "input" /\ WellNestedTables(htmlString)) =>
        totalWords \in {calculateWordCount(OutsideTables(htmlString, 0, <<>>)),
                        calculateWordCount(OutsideTables(htmlString, 0, <<WS>>))}

Wrappers == {"<p>", "<b>"}

\* the place of the only code of s, when nothing but wrapping tags precede it
LeadingCodeAt(s) ==
    {k \in DOMAIN s : /\ s[k] \in Codes
                      /\ \A i \in 1..(k - 1) : s[i] \in Wrappers
                      /\ \A i \in (k + 1)..Len(s) : s[i] \notin Codes}

\* C7: a code at the start of the text, wrapped in markup or not, with any
\* digits, is removed and not counted: the count is that of the text after
\* the code; a code that follows a word stays in the text.
C7_LeadingCodeNotCounted ==
    (npc # "input") =>
        /\ \A k \in LeadingCodeAt(htmlString) :
              totalWords =
                  calculateWordCount(SubSeq(htmlString, k + 1, Len(htmlString)))
        /\ \A k \in DOMAIN htmlString :
              (/\ k > 2
               /\ htmlString[k] \in Codes
               /\ htmlString[1] = "w"
               /\ \A i \in 1..k : htmlString[i] \notin
                      (TableOpen \cup StrikeOpen))
                 => htmlString[k] \in Range(cleanText)

\* C8 as claimed: normalizing the normalized text of any input returns the
\* same text, and the same word count.
C8_Original ==
    (npc = "renormalized") =>
        cleanText2 = cleanText /\ totalWords2 = totalWords

\* a normalized text with no markup left that does not start with a code the
\* pattern matches
PlainNormalized(t) ==
    /\ \A i \in DOMAIN t : t[i] \notin Tags \cup {NBSP}
    /\ t = <<>> \/ Head(t) \notin MatchedCodes

\* C8 as amended: when the normalized text of an input holds no markup and
\* does not start with a code the pattern matches, normalizing it again
\* returns the same text and the same word count.
C8_IdempotentOnPlainText ==
    (npc = "renormalized" /\ PlainNormalized(cleanText)) =>
        cleanText2 = cleanText /\ totalWords2 = totalWords

C8_Witness ==
    /\ npc = "renormalized"
    /\ PlainNormalized(cleanText)
    /\ cleanText # htmlString
    /\ NBSP \in Range(htmlString)
    /\ totalWords = 2

====
